---- MODULE Spec2Model ----
\* Model of python/setup.py of prismaid: one invocation of the packaging
\* script is a straight-line run (version resolution, host OS detection,
\* README read, setup() call); the environment (git, the file system, the
\* host) answers each call nondeterministically.  Invocations follow one
\* another, so that properties relating two runs can be stated.
EXTENDS Integers, Sequences, FiniteSets, TLC

\* ---------------------------------------------------------------- bounds
MaxOutLen == 2        \* longest output (in bytes) a git command prints
MaxReadmeLen == 2     \* longest README contents (in characters)

\* ------------------------------------------------------- the environment
\* Bytes a git command may print: newline, "a", "b".
OutputBytes == {10, 97, 98}
Outputs == UNION {[1..k -> OutputBytes] : k \in 0..MaxOutLen}

\* Characters of the README text.
ReadmeChars == {"x", "\n"}
ReadmeContents == UNION {[1..k -> ReadmeChars] : k \in 0..MaxReadmeLen}

\* Values platform.system() returns.
Systems == {"Linux", "Windows", "Darwin"}

\* Results of find_packages(where="package"): the scan of the package directory.
PackageLists == {<<>>, <<"prismaid">>}

\* What open() may find at ../README.md when it fails, and what it raises then.
OpenFailures == {"missing", "denied"}
OpenError(status) == IF status = "missing" THEN "FileNotFoundError" ELSE "PermissionError"

VARIABLES
    pc,               \* position of the run in the script
    version,          \* local of get_version
    package_version,  \* module global, line 17
    system,           \* module global, line 20
    fh,               \* the file object of the with statement: [state, pos]
    readme,           \* contents of ../README.md once opened
    long_description, \* module global, line 29
    pending,          \* exception travelling through the with statement's exit
    error,            \* exception that ended the run ("" while none)
    abortStep,        \* the step that raised it
    tagExit,          \* how git describe --tags --abbrev=0 ended ("" before the call)
    tagOut,           \* its raw output
    fallbackExit,     \* how git rev-parse --short HEAD ended ("" if never called)
    fallbackOut,      \* its raw output
    readmeStatus,     \* what open() found at ../README.md ("" before the call)
    calls,            \* the external calls of this run, in order
    setupCalls,       \* the metadata records handed to setup() in this run
    prevFallback,     \* version an earlier run resolved through the fallback
    prevMeta          \* metadata an earlier run emitted, less version and long_description

vars == <<pc, version, package_version, system, fh, readme, long_description,
          pending, error, abortStep, tagExit, tagOut, fallbackExit, fallbackOut,
          readmeStatus, calls, setupCalls, prevFallback, prevMeta>>

\* --------------------------------------------------------- pure functions
\* bytes.decode(): byte by byte for the ASCII range.
Chr(b) == CASE b = 10 -> "\n"
            [] b = 97 -> "a"
            [] b = 98 -> "b"

decode(bs) == [i \in 1..Len(bs) |-> Chr(bs[i])]

Whitespace == {"\n", " ", "\t", "\r"}

RECURSIVE lstrip(_)
lstrip(s) == IF s = <<>> THEN s
             ELSE IF Head(s) \in Whitespace THEN lstrip(Tail(s)) ELSE s

RECURSIVE rstrip(_)
rstrip(s) == IF s = <<>> THEN s
             ELSE IF s[Len(s)] \in Whitespace THEN rstrip(SubSeq(s, 1, Len(s) - 1)) ELSE s

\* str.strip(): leading and trailing whitespace removed, the inside kept.
strip(s) == rstrip(lstrip(s))

\* fh.read(): everything from the current position to the end of the file.
read(contents, pos) == SubSeq(contents, pos + 1, Len(contents))

\* ---------------------------------------------------------- setup() input
\* Variant: only the library of the detected host is bundled.
shared_libs_host ==
    IF system = "Linux" THEN <<"libprismaid_linux_amd64.so">>
    ELSE IF system = "Windows" THEN <<"libprismaid_windows_amd64.dll">>
    ELSE <<"libprismaid_darwin_amd64.dylib">>

shared_libs == <<"libprismaid_linux_amd64.so",
                 "libprismaid_windows_amd64.dll",
                 "libprismaid_darwin_amd64.dylib">>

\* Variant: the operating system classifier names the detected host.
Metadata_host(v, ld, pkgs) ==
    [name |-> "prismaid",
     version |-> v,
     description |-> "PrismAId library package",
     long_description |-> ld,
     long_description_content_type |-> "text/markdown",
     packages |-> pkgs,
     package_dir |-> ("" :> "package"),
     package_data |-> ("" :> shared_libs),
     include_package_data |-> TRUE,
     classifiers |-> <<"Programming Language :: Python :: 3",
                       "Operating System :: " \o system>>,
     install_requires |-> <<>>]

\* The keyword arguments of the setup() call; a dict is a function on its keys.
Metadata(v, ld, pkgs) ==
    [name |-> "prismaid",
     version |-> v,
     description |-> "PrismAId library package",
     long_description |-> ld,
     long_description_content_type |-> "text/markdown",
     packages |-> pkgs,
     package_dir |-> ("" :> "package"),
     package_data |-> ("" :> shared_libs),
     include_package_data |-> TRUE,
     classifiers |-> <<"Programming Language :: Python :: 3",
                       "Operating System :: OS Independent">>,
     install_requires |-> <<>>]

\* A metadata record without the two fields computed from git and the README.
OtherFields(m) == [f \in (DOMAIN m) \ {"version", "long_description"} |-> m[f]]

\* ------------------------------------------------------------------ Init
\* The state a fresh interpreter starts the script in.
FreshRun ==
    /\ pc = "tag_lookup"
    /\ version = <<>>
    /\ package_version = <<>>
    /\ system = ""
    /\ fh = [state |-> "unopened", pos |-> 0]
    /\ readme = <<>>
    /\ long_description = <<>>
    /\ pending = ""
    /\ error = ""
    /\ abortStep = ""
    /\ tagExit = ""
    /\ tagOut = <<>>
    /\ fallbackExit = ""
    /\ fallbackOut = <<>>
    /\ readmeStatus = ""
    /\ calls = <<>>
    /\ setupCalls = <<>>

Init ==
    /\ FreshRun
    /\ prevFallback = <<>>
    /\ prevMeta = <<>>

\* An uncaught exception ends the run at the step that raised it.
Abort(step, exc) ==
    /\ pc' = "aborted"
    /\ error' = exc
    /\ abortStep' = step

\* --------------------------------------------------------- get_version()
\* Variant: the output is decoded but not stripped.
TagLookupOk_NoStrip ==
    /\ pc = "tag_lookup"
    /\ \E out \in Outputs :
          /\ tagOut' = out
          /\ version' = decode(out)
    /\ calls' = Append(calls, "git describe")
    /\ pc' = "return_version"
    /\ tagExit' = "ok"
    /\ UNCHANGED <<package_version, system, fh, readme, long_description, pending,
                   error, abortStep, fallbackExit, fallbackOut, readmeStatus,
                   setupCalls, prevFallback, prevMeta>>

\* Line 10, the command exits 0: its output is decoded and stripped.
TagLookupOk ==
    /\ pc = "tag_lookup"
    /\ \E out \in Outputs :
          /\ tagOut' = out
          /\ version' = strip(decode(out))
    /\ calls' = Append(calls, "git describe")
    /\ pc' = "return_version"
    /\ tagExit' = "ok"
    /\ UNCHANGED <<package_version, system, fh, readme, long_description, pending,
                   error, abortStep, fallbackExit, fallbackOut, readmeStatus,
                   setupCalls, prevFallback, prevMeta>>

\* Variant: a failed tag lookup is tried once more before falling back.
TagLookupNonZero_Retry ==
    /\ pc = "tag_lookup"
    /\ calls' = Append(calls, "git describe")
    /\ pc' = IF calls = <<>> THEN "tag_lookup" ELSE "fallback_lookup"
    /\ tagExit' = "nonzero"
    /\ UNCHANGED <<version, package_version, system, fh, readme, long_description,
                   pending, error, abortStep, tagOut, fallbackExit, fallbackOut,
                   readmeStatus, setupCalls, prevFallback, prevMeta>>

\* Line 10, the command exits non-zero: CalledProcessError, caught at line 11.
TagLookupNonZero ==
    /\ pc = "tag_lookup"
    /\ calls' = Append(calls, "git describe")
    /\ pc' = "fallback_lookup"
    /\ tagExit' = "nonzero"
    /\ UNCHANGED <<version, package_version, system, fh, readme, long_description,
                   pending, error, abortStep, tagOut, fallbackExit, fallbackOut,
                   readmeStatus, setupCalls, prevFallback, prevMeta>>

\* Line 10, no git executable: FileNotFoundError, which line 11 does not catch.
TagLookupUnavailable ==
    /\ pc = "tag_lookup"
    /\ calls' = Append(calls, "git describe")
    /\ Abort("tag_lookup", "FileNotFoundError")
    /\ tagExit' = "unavailable"
    /\ UNCHANGED <<version, package_version, system, fh, readme, long_description,
                   pending, tagOut, fallbackExit, fallbackOut, readmeStatus,
                   setupCalls, prevFallback, prevMeta>>

\* Variant: the fallback is a fixed string, whatever the command prints.
FallbackLookupOk_Fixed ==
    /\ pc = "fallback_lookup"
    /\ \E out \in Outputs : fallbackOut' = out
    /\ version' = <<"0", ".", "1", ".", "0">>
    /\ calls' = Append(calls, "git rev-parse")
    /\ pc' = "return_version"
    /\ fallbackExit' = "ok"
    /\ UNCHANGED <<package_version, system, fh, readme, long_description, pending,
                   error, abortStep, tagExit, tagOut, readmeStatus, setupCalls,
                   prevFallback, prevMeta>>

\* Line 13, the command exits 0.
FallbackLookupOk ==
    /\ pc = "fallback_lookup"
    /\ \E out \in Outputs :
          /\ fallbackOut' = out
          /\ version' = strip(decode(out))
    /\ calls' = Append(calls, "git rev-parse")
    /\ pc' = "return_version"
    /\ fallbackExit' = "ok"
    /\ UNCHANGED <<package_version, system, fh, readme, long_description, pending,
                   error, abortStep, tagExit, tagOut, readmeStatus, setupCalls,
                   prevFallback, prevMeta>>

\* Line 13, the command exits non-zero (no commit, not a repository): the
\* CalledProcessError is raised inside the except block and propagates.
FallbackLookupNonZero ==
    /\ pc = "fallback_lookup"
    /\ calls' = Append(calls, "git rev-parse")
    /\ Abort("fallback_lookup", "CalledProcessError")
    /\ fallbackExit' = "nonzero"
    /\ UNCHANGED <<version, package_version, system, fh, readme, long_description,
                   pending, tagExit, tagOut, fallbackOut, readmeStatus, setupCalls,
                   prevFallback, prevMeta>>

\* Lines 14 and 17: return version; package_version = get_version().
AssignVersion ==
    /\ pc = "return_version"
    /\ package_version' = version
    /\ pc' = "platform_system"
    /\ UNCHANGED <<version, system, fh, readme, long_description, pending, error,
                   abortStep, tagExit, tagOut, fallbackExit, fallbackOut, readmeStatus,
                   calls, setupCalls, prevFallback, prevMeta>>

\* Line 20: system = platform.system().
DetectSystem ==
    /\ pc = "platform_system"
    /\ \E s \in Systems : system' = s
    /\ pc' = "open_readme"
    /\ UNCHANGED <<version, package_version, fh, readme, long_description, pending,
                   error, abortStep, tagExit, tagOut, fallbackExit, fallbackOut,
                   readmeStatus, calls, setupCalls, prevFallback, prevMeta>>

\* ------------------------------------------------------- the README read
\* Line 28, open("../README.md", "r") succeeds.
OpenReadmeOk ==
    /\ pc = "open_readme"
    /\ \E c \in ReadmeContents : readme' = c
    /\ fh' = [state |-> "open", pos |-> 0]
    /\ calls' = Append(calls, "open")
    /\ pc' = "read_readme"
    /\ readmeStatus' = "present"
    /\ UNCHANGED <<version, package_version, system, long_description, pending, error,
                   abortStep, tagExit, tagOut, fallbackExit, fallbackOut, setupCalls,
                   prevFallback, prevMeta>>

\* Variant: a failed open() is recovered with an empty long description.
OpenReadmeFails_Recovers ==
    /\ pc = "open_readme"
    /\ calls' = Append(calls, "open")
    /\ \E status \in OpenFailures : readmeStatus' = status
    /\ pc' = "setup"
    /\ UNCHANGED <<version, package_version, system, fh, readme, long_description,
                   pending, error, abortStep, tagExit, tagOut, fallbackExit,
                   fallbackOut, setupCalls, prevFallback, prevMeta>>

\* Line 28, open() raises: the file is missing or may not be read.
OpenReadmeFails ==
    /\ pc = "open_readme"
    /\ calls' = Append(calls, "open")
    /\ \E status \in OpenFailures :
          /\ readmeStatus' = status
          /\ Abort("open_readme", OpenError(status))
    /\ UNCHANGED <<version, package_version, system, fh, readme, long_description,
                   pending, tagExit, tagOut, fallbackExit, fallbackOut, setupCalls,
                   prevFallback, prevMeta>>

\* Line 29, long_description = fh.read().
ReadReadmeOk ==
    /\ pc = "read_readme"
    /\ long_description' = read(readme, fh.pos)
    /\ fh' = [fh EXCEPT !.pos = Len(readme)]
    /\ calls' = Append(calls, "read")
    /\ pc' = "exit_with"
    /\ UNCHANGED <<version, package_version, system, readme, pending, error, abortStep,
                   tagExit, tagOut, fallbackExit, fallbackOut, readmeStatus,
                   setupCalls, prevFallback, prevMeta>>

\* Line 29, fh.read() raises (the bytes do not decode, an I/O error).
ReadReadmeFails ==
    /\ pc = "read_readme"
    /\ pending' = "UnicodeDecodeError"
    /\ calls' = Append(calls, "read")
    /\ pc' = "exit_with"
    /\ UNCHANGED <<version, package_version, system, fh, readme, long_description,
                   error, abortStep, tagExit, tagOut, fallbackExit, fallbackOut,
                   readmeStatus, setupCalls, prevFallback, prevMeta>>

\* Variant: the exception of the with body is swallowed at the exit.
ExitWith_Swallow ==
    /\ pc = "exit_with"
    /\ fh' = [fh EXCEPT !.state = "closed"]
    /\ pc' = "setup"
    /\ UNCHANGED <<version, package_version, system, readme, long_description,
                   pending, error, abortStep, tagExit, tagOut, fallbackExit,
                   fallbackOut, readmeStatus, calls, setupCalls, prevFallback,
                   prevMeta>>

\* Variant: no with statement, the file is closed only when read() returned.
ExitWith_Leak ==
    /\ pc = "exit_with"
    /\ IF pending = ""
         THEN /\ fh' = [fh EXCEPT !.state = "closed"]
              /\ pc' = "setup"
              /\ UNCHANGED <<error, abortStep>>
         ELSE /\ fh' = fh
              /\ Abort("read_readme", pending)
    /\ UNCHANGED <<version, package_version, system, readme, long_description,
                   pending, tagExit, tagOut, fallbackExit, fallbackOut,
                   readmeStatus, calls, setupCalls, prevFallback, prevMeta>>

\* Lines 28-29, leaving the with block: the file is closed, then a pending
\* exception goes on propagating.
ExitWith ==
    /\ pc = "exit_with"
    /\ fh' = [fh EXCEPT !.state = "closed"]
    /\ IF pending = ""
         THEN /\ pc' = "setup"
              /\ UNCHANGED <<error, abortStep>>
         ELSE Abort("read_readme", pending)
    /\ UNCHANGED <<version, package_version, system, readme, long_description,
                   pending, tagExit, tagOut, fallbackExit, fallbackOut,
                   readmeStatus, calls, setupCalls, prevFallback, prevMeta>>

\* ------------------------------------------------------------- setup(...)
\* Lines 31-46.
CallSetup ==
    /\ pc = "setup"
    /\ \E pkgs \in PackageLists :
          setupCalls' = Append(setupCalls, Metadata(package_version, long_description, pkgs))
    /\ calls' = Append(calls, "setup")
    /\ pc' = "done"
    /\ UNCHANGED <<version, package_version, system, fh, readme, long_description,
                   pending, error, abortStep, tagExit, tagOut, fallbackExit,
                   fallbackOut, readmeStatus, prevFallback, prevMeta>>

\* ------------------------------------------------------ the next invocation
\* The version this run resolved through the fallback command, if it did.
FallbackResolved == fallbackExit = "ok"

\* The script is run again: a fresh interpreter, and what the finished run
\* produced is remembered for comparison.
Restart ==
    /\ pc \in {"done", "aborted"}
    /\ prevFallback' = IF FallbackResolved THEN <<version>> ELSE prevFallback
    /\ prevMeta' = IF setupCalls # <<>> THEN <<OtherFields(setupCalls[1])>> ELSE prevMeta
    /\ pc' = "tag_lookup"
    /\ version' = <<>>
    /\ package_version' = <<>>
    /\ system' = ""
    /\ fh' = [state |-> "unopened", pos |-> 0]
    /\ readme' = <<>>
    /\ long_description' = <<>>
    /\ pending' = ""
    /\ error' = ""
    /\ abortStep' = ""
    /\ tagExit' = ""
    /\ tagOut' = <<>>
    /\ fallbackExit' = ""
    /\ fallbackOut' = <<>>
    /\ readmeStatus' = ""
    /\ calls' = <<>>
    /\ setupCalls' = <<>>

Next ==
    \/ TagLookupOk
    \/ TagLookupNonZero
    \/ TagLookupUnavailable
    \/ FallbackLookupOk
    \/ FallbackLookupNonZero
    \/ AssignVersion
    \/ DetectSystem
    \/ OpenReadmeOk
    \/ OpenReadmeFails
    \/ ReadReadmeOk
    \/ ReadReadmeFails
    \/ ExitWith
    \/ CallSetup
    \/ Restart

Spec == Init /\ [][Next]_vars

\* ------------------------------------------------------------ properties
Range(q) == {q[i] : i \in DOMAIN q}
Count(q, x) == Cardinality({i \in DOMAIN q : q[i] = x})

\* The run is past get_version() and holds its result.
VersionAssigned == pc \in {"platform_system", "open_readme", "read_readme",
                           "exit_with", "setup", "done"}
                   \/ (pc = "aborted" /\ abortStep \in {"open_readme", "read_readme"})

\* C1: when git describe --tags --abbrev=0 exits 0, get_version returns its
\* output with the surrounding whitespace removed, package_version and the
\* version handed to setup() are that string, and git rev-parse is not run.
C1_TagIsVersion ==
    tagExit = "ok" =>
        /\ version = strip(decode(tagOut))
        /\ VersionAssigned => package_version = strip(decode(tagOut))
        /\ \A i \in DOMAIN setupCalls : setupCalls[i].version = strip(decode(tagOut))
        /\ fallbackExit = ""
        /\ "git rev-parse" \notin Range(calls)

C1_Witness ==
    /\ pc = "done"
    /\ tagExit = "ok"
    /\ tagOut = <<97, 10>>
    /\ setupCalls[1].version = <<"a">>

\* C2 as stated: the version resolved through the fallback is one fixed
\* string, the same in every run whatever the repository state.
C2_FallbackIsFixed ==
    (fallbackExit = "ok" /\ prevFallback # <<>>) => version = prevFallback[1]

\* C2 amended: when the tag lookup exits non-zero and git rev-parse --short
\* HEAD exits 0, the resolved version is the stripped output of that command,
\* which follows the current commit.
C2_FallbackIsCommitHash ==
    fallbackExit = "ok" =>
        /\ tagExit = "nonzero"
        /\ version = strip(decode(fallbackOut))
        /\ VersionAssigned => package_version = strip(decode(fallbackOut))
        /\ \A i \in DOMAIN setupCalls : setupCalls[i].version = strip(decode(fallbackOut))

C2_Witness ==
    /\ pc = "done"
    /\ fallbackExit = "ok"
    /\ prevFallback # <<>>
    /\ setupCalls[1].version # <<>>
    /\ prevFallback[1] # <<>>
    /\ setupCalls[1].version # prevFallback[1]

\* C3: no failure of the version lookup ends the run; a run aborts only at
\* the open or the read of the README.
C3_OnlyReadmeAborts ==
    pc = "aborted" => abortStep \in {"open_readme", "read_readme"}

\* C4: a missing ../README.md ends the run with FileNotFoundError at the
\* open, nothing stands in for the long description and setup() is not called.
C4_MissingReadmeAborts ==
    readmeStatus = "missing" =>
        /\ pc = "aborted"
        /\ abortStep = "open_readme"
        /\ error = "FileNotFoundError"
        /\ setupCalls = <<>>
        /\ "setup" \notin Range(calls)
        /\ "read" \notin Range(calls)

C4_Witness ==
    /\ readmeStatus = "missing"
    /\ pc = "aborted"
    /\ VersionAssigned
    /\ package_version # <<>>

C6_VersionNonEmpty ==
    \A i \in DOMAIN setupCalls : setupCalls[i].version # <<>>

\* C7 as stated: name, description and classifiers are the fixed values, and
\* two emitted records differ in version and long_description at most.
C7_OnlyVersionAndDescriptionVary ==
    \A i \in DOMAIN setupCalls :
        /\ setupCalls[i].name = "prismaid"
        /\ setupCalls[i].description = "PrismAId library package"
        /\ setupCalls[i].classifiers = <<"Programming Language :: Python :: 3",
                                         "Operating System :: OS Independent">>
        /\ prevMeta # <<>> => OtherFields(setupCalls[i]) = prevMeta[1]

\* C7 amended: name, description and classifiers are the fixed values in
\* every emitted record, and two emitted records differ at most in version,
\* long_description and packages (the result of scanning the package directory).
C7_FixedFields ==
    \A i \in DOMAIN setupCalls :
        /\ setupCalls[i].name = "prismaid"
        /\ setupCalls[i].description = "PrismAId library package"
        /\ setupCalls[i].classifiers = <<"Programming Language :: Python :: 3",
                                         "Operating System :: OS Independent">>
        /\ prevMeta # <<>> =>
              \A f \in (DOMAIN prevMeta[1]) \ {"packages"} :
                  OtherFields(setupCalls[i])[f] = prevMeta[1][f]

C7_Witness ==
    /\ pc = "done"
    /\ prevMeta # <<>>
    /\ setupCalls[1].packages # prevMeta[1].packages
    /\ setupCalls[1].name = prevMeta[1].name

\* Position of an external call in the order of the script.
Rank(c) == CASE c = "git describe" -> 1
             [] c = "git rev-parse" -> 2
             [] c = "open" -> 3
             [] c = "read" -> 4
             [] c = "setup" -> 5

\* C8: the external calls of a run happen in the order of the script, each
\* at most once; the README is opened only after the version is resolved and
\* assigned; setup() is called at most once, only after the version lookup
\* and the read both succeeded, with the values computed before; a run that
\* aborts at the open has made its version-control calls.
C8_FixedOrder ==
    /\ \A i, j \in DOMAIN calls : i < j => Rank(calls[i]) < Rank(calls[j])
    /\ "open" \in Range(calls) =>
          /\ "git describe" \in Range(calls)
          /\ tagExit = "ok" \/ fallbackExit = "ok"
          /\ package_version = version
    /\ "setup" \in Range(calls) =>
          /\ "read" \in Range(calls)
          /\ readmeStatus = "present"
          /\ pending = ""
          /\ error = ""
    /\ Len(setupCalls) <= 1
    /\ Len(setupCalls) = Count(calls, "setup")
    /\ \A i \in DOMAIN setupCalls :
          /\ setupCalls[i].version = package_version
          /\ setupCalls[i].long_description = long_description
    /\ abortStep = "open_readme" => calls[1] = "git describe" /\ calls[Len(calls)] = "open"

C8_Witness ==
    /\ pc = "done"
    /\ calls = <<"git describe", "git rev-parse", "open", "read", "setup">>
    /\ Len(setupCalls) = 1

\* C9: git rev-parse runs only after git describe exited non-zero, never
\* after it succeeded; each command runs at most once, so a run makes at most
\* two version-control calls.
C9_NoRetry ==
    /\ "git rev-parse" \in Range(calls) => tagExit = "nonzero" /\ calls[1] = "git describe"
    /\ tagExit = "ok" => "git rev-parse" \notin Range(calls)
    /\ Count(calls, "git describe") <= 1
    /\ Count(calls, "git rev-parse") <= 1
    /\ Count(calls, "git describe") + Count(calls, "git rev-parse") <= 2

C9_Witness ==
    /\ tagExit = "nonzero"
    /\ fallbackExit = "ok"
    /\ pc = "done"
    /\ Count(calls, "git describe") + Count(calls, "git rev-parse") = 2

\* C10: the file object of the README is closed wherever setup() is called
\* and wherever the run ends, also when read() raised; and the long
\* description handed to setup() is the whole contents of the file.
C10_ScopedRead ==
    /\ pc = "setup" => fh.state = "closed"
    /\ pc \in {"done", "aborted"} => fh.state # "open"
    /\ abortStep = "read_readme" => fh.state = "closed"
    /\ \A i \in DOMAIN setupCalls : setupCalls[i].long_description = readme

C10_Witness ==
    /\ pc = "done"
    /\ fh.state = "closed"
    /\ Len(readme) = MaxReadmeLen
    /\ setupCalls[1].long_description = readme
====
